---- MODULE Spec2Model ----
(***************************************************************************)
(* State-machine model of the Apollo container test harness                *)
(* (apolloContainerTests and its private helpers) of                       *)
(* src/src/apolloContainerTests/SampleContainer.spec.js.                   *)
(*                                                                         *)
(* One behaviour of the model is one invocation of one test entry point    *)
(* (testComposeRequests, testQueries, testMutations, testRender,           *)
(* testRenderError) under one configuration chosen in Init.                *)
(***************************************************************************)
EXTENDS Integers, Sequences, FiniteSets, TLC

\* ------------------------------------------------------------------ bounds
\* longest collection of sub-errors carried by an Error payload
MaxErrs == 3
\* largest number of entries of the apolloContainers object
MaxContainers == 2
\* largest number of nodes the component renders for one status class
MaxNodes == 2
\* number of distinct values the server can put at an updated path of a response
MaxStamp == 2
\* deepest nesting of a query response
MaxDepth == 2

\* ------------------------------------------------------------------ values
SubErrs == {"e1", "e2"}

RECURSIVE SeqsUpTo(_, _)
SeqsUpTo(S, n) ==
  IF n = 0 THEN {<< >>}
  ELSE LET shorter == SeqsUpTo(S, n - 1)
       IN  shorter \cup {Append(s, x) : s \in {t \in shorter : Len(t) = n - 1}, x \in S}

Last(s) == s[Len(s)]

Reverse(s) == [i \in 1..Len(s) |-> s[Len(s) + 1 - i]]

\* A props envelope is a mapping prop name -> value.  "region" stands for
\* region.id, "render" for the render function of the envelope.
EmptyProps == << >>

Merge(a, b) ==
  [k \in (DOMAIN a) \cup (DOMAIN b) |-> IF k \in DOMAIN b THEN b[k] ELSE a[k]]

ParentProps ==
  { [k \in {"region"} |-> "oakland"],
    [k \in {"region", "render"} |-> IF k = "region" THEN "oakland" ELSE "parentRender"] }

\* The payload of a Result.Error: a non object (obj = FALSE), an object
\* without an error property, or an object whose error property is a list.
ErrorPayloads ==
  { [obj |-> FALSE, hasError |-> FALSE, error |-> << >>] }
  \cup { [obj |-> TRUE, hasError |-> FALSE, error |-> << >>] }
  \cup { [obj |-> TRUE, hasError |-> TRUE, error |-> es] : es \in SeqsUpTo(SubErrs, MaxErrs) }

\* The result of the producer of the sample test.
SampleProps ==
  [tag |-> "Ok", value |-> [k \in {"region"} |-> "oakland"],
   payload |-> [obj |-> FALSE, hasError |-> FALSE, error |-> << >>]]

\* What the props producer's task settles to.
PropsResults ==
  { [tag |-> "Ok", value |-> p, payload |-> [obj |-> FALSE, hasError |-> FALSE, error |-> << >>]]
      : p \in ParentProps }
  \cup { [tag |-> "Error", value |-> EmptyProps, payload |-> e] : e \in ErrorPayloads }

NoError == [t |-> "none", sub |-> "", payload |-> [obj |-> FALSE, hasError |-> FALSE, error |-> << >>]]
SubError(e) == [t |-> "sub", sub |-> e, payload |-> [obj |-> FALSE, hasError |-> FALSE, error |-> << >>]]
PayloadError(p) == [t |-> "payload", sub |-> "", payload |-> p]

\* ------------------------------------------------------------------ parentPropsTask
\* R.propOr([], 'error', error)
PropOrError(error) == IF error.hasError THEN error.error ELSE << >>

\* Index of the element at which R.forEach throws: the first one that
\* R.equals the last one (0 when the list is empty).
RECURSIVE FirstEqualToLast(_, _)
FirstEqualToLast(errors, i) ==
  IF i > Len(errors) THEN 0
  ELSE IF errors[i] = Last(errors) THEN i
  ELSE FirstEqualToLast(errors, i + 1)

\* Variant of ErrorBranch: the first sub-error is thrown instead of the last.
ErrorBranchThrowsFirst(error) ==
  IF error.obj /\ PropOrError(error) # << >>
  THEN [logged |-> <<PropOrError(error)[1]>>, thrown |-> SubError(PropOrError(error)[1])]
  ELSE [logged |-> << >>, thrown |-> PayloadError(error)]

\* Variant of ErrorBranch: for an object without sub-errors the last
\* element of the empty collection is thrown.
ErrorBranchThrowsLastOfEmpty(error) ==
  IF error.obj
  THEN LET errors == PropOrError(error)
           k == FirstEqualToLast(errors, 1)
       IN  IF k > 0
           THEN [logged |-> SubSeq(errors, 1, k), thrown |-> SubError(errors[k])]
           ELSE [logged |-> << >>, thrown |-> NoError]
  ELSE [logged |-> << >>, thrown |-> PayloadError(error)]

\* The Error branch of propsResult.matchWith: what is logged, what is thrown.
ErrorBranch(error) ==
  IF error.obj
  THEN LET errors == PropOrError(error)
           k == FirstEqualToLast(errors, 1)
       IN  IF k > 0
           THEN [logged |-> SubSeq(errors, 1, k), thrown |-> SubError(errors[k])]
           ELSE [logged |-> << >>, thrown |-> PayloadError(error)]
  ELSE [logged |-> << >>, thrown |-> PayloadError(error)]

\* The Ok branch of propsResult.matchWith.
OkBranch(value) == value


\* ------------------------------------------------------------------ named operations
\* An operation name is a sequence of fragments; R.includes(marker, key) is
\* true when the marker fragment occurs in the key.
queryRegions == <<"query", "Regions">>
queryUserRegions == <<"query", "UserRegions">>
mutateRegion == <<"mutat", "eRegion">>
mutateUser == <<"mutat", "eUser">>

NamePool == <<queryRegions, queryUserRegions, mutateRegion, mutateUser>>

Includes(marker, key) == \E i \in 1..Len(key) : key[i] = marker

\* An entry of an object of named operations, and the keys of such an object.
Entry(key, value) == [key |-> key, value |-> value]
Keys(obj) == [i \in DOMAIN obj |-> obj[i].key]
\* The container function an apolloContainers key is valued by.
Container == <<"container">>

\* filterWithKeys((_, key) => R.includes(marker, key), obj): the entries of
\* obj, in key order, whose key includes the marker.
RECURSIVE FilterWithKeysByValue(_, _)
\* Variant of FilterWithKeys: the predicate looks at the value of the entry.
FilterWithKeysByValue(marker, obj) ==
  IF obj = << >> THEN << >>
  ELSE IF Includes(marker, Head(obj).value)
       THEN <<Head(obj)>> \o FilterWithKeysByValue(marker, Tail(obj))
       ELSE FilterWithKeysByValue(marker, Tail(obj))

RECURSIVE FilterWithKeys(_, _)
FilterWithKeys(marker, obj) ==
  IF obj = << >> THEN << >>
  ELSE IF Includes(marker, Head(obj).key)
       THEN <<Head(obj)>> \o FilterWithKeys(marker, Tail(obj))
       ELSE FilterWithKeys(marker, Tail(obj))

filterForQueryContainers(apolloContainers) == FilterWithKeys("query", apolloContainers)

filterForMutationContainers(apolloContainers) == FilterWithKeys("mutat", apolloContainers)

\* The apolloContainers objects of the configurations: the names of the pool,
\* in pool order, at most MaxContainers of them.
RECURSIVE SubSeqsOf(_)
SubSeqsOf(s) ==
  IF s = << >> THEN {<< >>}
  ELSE LET rest == SubSeqsOf(Tail(s))
       IN  rest \cup {<<Head(s)>> \o r : r \in rest}

ContainerSets ==
  {[i \in DOMAIN c |-> Entry(c[i], Container)] :
     c \in {d \in SubSeqsOf(NamePool) : Len(d) <= MaxContainers}}

\* ------------------------------------------------------------------ state
VARIABLES
  test,          \* the test entry point invoked
  hasProducer,   \* apolloConfigToPropsResultTask was supplied
  propsResult,   \* what the props producer settles to
  hasLoading,    \* statusClasses.loading (childClassLoadingName) is declared
  containers,    \* the keys of apolloContainers(...)
  idx,           \* position in the composed chain of the test
  st,            \* "ready": the step at idx has not started; "running": it waits
  trace,         \* the steps started so far, in order
  settled,       \* the steps completed so far, in order
  log,           \* what log.error was called with, in order
  props,         \* the resolved props envelope
  outcome,       \* "running", "passed" or "failed"
  failure,       \* kind, step and error of the failure
  tree,          \* the mounted tree (the enzyme wrapper)
  wait,          \* the terminal-marker wait of _testRenderComponent
  request,       \* the query requests of the mounted containers
  childComponent,\* number of nodes in the wait's childComponent
  ops,           \* the named operations handed to waitAll
  agg,           \* what waitAll delivered
  doneOrder,     \* the operations that resolved, in the order they did
  pendingRender, \* mutations whose re-render has not landed yet
  asserted,      \* the assertions the onResolved listener evaluated, in order
  dataSet,       \* a query response handed to omitDeep
  snapshotFile,  \* the snapshot jest has stored
  matched,       \* the verdict of the last toMatchSnapshot
  operationSet,  \* an object of named operations handed to the filters
  filterMarker,  \* the marker of the filter applied to it
  filtered,      \* what the filter returned last
  previous,      \* what the filter returned the time before
  contextFault   \* what is wrong with the context handed to apolloContainerTests

vars == <<test, hasProducer, propsResult, hasLoading, containers, idx, st, trace,
          settled, log, props, outcome, failure, tree, wait, request,
          childComponent, ops, agg, doneOrder, pendingRender, asserted,
          dataSet, snapshotFile, matched, operationSet, filterMarker, filtered, previous,
          contextFault>>

\* The inputs and results of the functions checked on their own.
partitionInputs == <<operationSet, filterMarker, filtered, previous>>
functionInputs == <<dataSet, snapshotFile, matched, partitionInputs>>

config == <<test, hasProducer, propsResult, hasLoading, containers, contextFault>>

Tests == {"testComposeRequests", "testQueries", "testMutations", "testRender",
          "testRenderError"}

\* ------------------------------------------------------------------ composition
\* Variant of ComposeWithChain: the list is executed from its first element.
ComposeLeftToRight(steps) == steps

\* composeWithChain([f_n, ..., f_1]) runs f_1 first: the list is written in
\* compose order and executed from its last element to its first.
ComposeWithChain(steps) == Reverse(steps)

\* Variant of TestSteps: testRenderError resolves the props without errorMaker.
TestStepsWithoutErrorMaker(t) ==
  CASE t = "testComposeRequests" -> <<"config", "props">>
    [] t = "testQueries" -> <<"queries", "config", "props">>
    [] t = "testMutations" -> <<"mutations", "config", "props">>
    [] t = "testRender" -> <<"mutations", "render", "config", "props">>
    [] t = "testRenderError" -> <<"render", "config", "props">>

\* Variant of TestSteps: testRender replays the mutations before it mounts.
TestStepsMutationsBeforeRender(t) ==
  CASE t = "testComposeRequests" -> <<"config", "props">>
    [] t = "testQueries" -> <<"queries", "config", "props">>
    [] t = "testMutations" -> <<"mutations", "config", "props">>
    [] t = "testRender" -> <<"render", "mutations", "config", "props">>
    [] t = "testRenderError" -> <<"render", "config", "propsError">>

\* The chain of each entry point, as the array handed to composeWithChain.
TestSteps(t) ==
  CASE t = "testComposeRequests" -> <<"config", "props">>
    [] t = "testQueries" -> <<"queries", "config", "props">>
    [] t = "testMutations" -> <<"mutations", "config", "props">>
    [] t = "testRender" -> <<"mutations", "render", "config", "props">>
    [] t = "testRenderError" -> <<"render", "config", "propsError">>

\* parentPropsTask: composeWithChainMDeep(1, [unwrap, producer]).
ParentPropsSteps == <<"unwrap", "producer">>

\* resolvedPropsTask: parentPropsTask when a producer is given, else of({}).
ResolvedPropsPlan(producerGiven) ==
  IF producerGiven THEN ComposeWithChain(ParentPropsSteps) ELSE <<"ofEmpty">>

RECURSIVE Expand(_, _)
Expand(steps, producerGiven) ==
  IF steps = << >> THEN << >>
  ELSE LET rest == Expand(Tail(steps), producerGiven)
       IN  CASE Head(steps) = "props" -> ResolvedPropsPlan(producerGiven) \o rest
             [] Head(steps) = "propsError" ->
                  ResolvedPropsPlan(producerGiven) \o <<"errorMaker">> \o rest
             [] OTHER -> <<Head(steps)>> \o rest

\* The steps of a test in execution order, ending in the onResolved listener.
Plan == Expand(ComposeWithChain(TestSteps(test)), hasProducer) \o <<"onResolved">>

\* What can be wrong with the context: nothing; a field the shape handed to
\* v marks as required; a whole section that is destructured; the
\* apolloContainers function, which the shape does not list.
ContextFaults == {"none", "validated", "section", "apolloContainers"}

\* v(...) throws for a field of its shape, the destructuring of the argument
\* throws for a missing section, and v(...) throws for a missing props
\* producer, which its list of arguments marks as required: all when
\* apolloContainerTests is called.
ThrowsAtCall == contextFault \in {"validated", "section"} \/ ~hasProducer

\* testRender evaluates apolloContainers({}) when the test is invoked, outside
\* its chain.
ThrowsAtSetup == contextFault = "apolloContainers" /\ test = "testRender"

AtStep(s) ==
  outcome = "running" /\ ~ThrowsAtSetup /\ idx <= Len(Plan) /\ Plan[idx] = s

NoFailure == [kind |-> "none", step |-> "", error |-> NoError]

Unmounted == [mounts |-> 0, loading |-> 0, data |-> 0, error |-> 0, rev |-> 0]

\* Values of a response: leaves, objects and lists, nested.
Leaf(v) == [t |-> "leaf", v |-> v]
Obj(f) == [t |-> "obj", f |-> f]
List(xs) == [t |-> "list", xs |-> xs]
NoTree == [t |-> "none"]

\* No filter has been applied.
Unfiltered ==
  /\ filterMarker = "none"
  /\ filtered = << >>
  /\ previous = << >>

\* Nothing has been run, mounted or asserted.
Untouched ==
  /\ idx = 1
  /\ st = "ready"
  /\ trace = << >>
  /\ settled = << >>
  /\ log = << >>
  /\ props = EmptyProps
  /\ tree = Unmounted
  /\ wait = "none"
  /\ request = "none"
  /\ childComponent = 0
  /\ ops = << >>
  /\ agg = [status |-> "none", results |-> << >>]
  /\ doneOrder = << >>
  /\ pendingRender = {}
  /\ asserted = << >>

\* A test invocation before its chain is run.
Constructed ==
  /\ Untouched
  /\ outcome = "running"
  /\ failure = NoFailure

\* apolloContainerTests threw: no test function was returned.
Rejected ==
  /\ Untouched
  /\ outcome = "failed"
  /\ failure = [kind |-> "configuration", step |-> "call", error |-> NoError]

Init ==
  /\ test \in Tests
  /\ hasProducer \in BOOLEAN
  /\ propsResult \in (IF hasProducer THEN PropsResults
                       ELSE {[tag |-> "Ok", value |-> EmptyProps, payload |-> NoError.payload]})
  /\ hasLoading \in BOOLEAN
  /\ contextFault \in ContextFaults
  /\ containers \in (IF contextFault = "apolloContainers" THEN {<< >>} ELSE ContainerSets)
  /\ IF ThrowsAtCall THEN Rejected ELSE Constructed
  /\ dataSet = Leaf("a")
  /\ snapshotFile = NoTree
  /\ matched = "none"
  /\ Unfiltered
  /\ operationSet = containers

\* A step that starts and completes in one synchronous run.
StepDone(s) ==
  /\ trace' = Append(trace, s)
  /\ settled' = Append(settled, s)
  /\ idx' = idx + 1
  /\ st' = "ready"

StepStarted(s) ==
  /\ trace' = Append(trace, s)
  /\ st' = "running"
  /\ UNCHANGED <<idx, settled>>

StepSettled(s) ==
  /\ settled' = Append(settled, s)
  /\ idx' = idx + 1
  /\ st' = "ready"
  /\ UNCHANGED trace

Fail(kind, s, error) ==
  /\ outcome' = "failed"
  /\ failure' = [kind |-> kind, step |-> s, error |-> error]

\* ------------------------------------------------------------------ props resolution
\* apolloConfigTaskToPropsResultTask(apolloConfigTask) is run.
ProducerStart ==
  /\ AtStep("producer") /\ st = "ready"
  /\ StepStarted("producer")
  /\ UNCHANGED <<config, log, props, outcome, failure, tree, wait, request,
                 childComponent, ops, agg, doneOrder, pendingRender>>
  /\ UNCHANGED <<asserted, functionInputs>>

\* Variant of ProducerResolve: a producer that resolved to an Error is run
\* a second time.
ProducerResolveRetriesError ==
  /\ AtStep("producer") /\ st = "running"
  /\ IF propsResult.tag = "Error" /\ trace = <<"producer">>
     THEN /\ trace' = Append(trace, "producer")
          /\ UNCHANGED <<idx, st, settled>>
     ELSE StepSettled("producer")
  /\ UNCHANGED <<config, log, props, outcome, failure, tree, wait, request,
                 childComponent, ops, agg, doneOrder, pendingRender>>
  /\ UNCHANGED <<asserted, functionInputs>>

\* The producer's task resolves to a Result (Ok or Error).
ProducerResolve ==
  /\ AtStep("producer") /\ st = "running"
  /\ StepSettled("producer")
  /\ UNCHANGED <<config, log, props, outcome, failure, tree, wait, request,
                 childComponent, ops, agg, doneOrder, pendingRender>>
  /\ UNCHANGED <<asserted, functionInputs>>

\* Variant of Unwrap: an Error is logged and empty props are passed on.
UnwrapSubstitutesDefault ==
  /\ AtStep("unwrap") /\ st = "ready"
  /\ props' = IF propsResult.tag = "Ok" THEN OkBranch(propsResult.value) ELSE EmptyProps
  /\ log' = IF propsResult.tag = "Ok" THEN log
            ELSE log \o ErrorBranch(propsResult.payload).logged
  /\ StepDone("unwrap")
  /\ UNCHANGED <<config, outcome, failure, tree, wait, request, childComponent, ops, agg,
                 doneOrder, pendingRender>>
  /\ UNCHANGED <<asserted, functionInputs>>

\* propsResult.matchWith({Ok, Error}) wrapped in of(...).
Unwrap ==
  /\ AtStep("unwrap") /\ st = "ready"
  /\ IF propsResult.tag = "Ok"
     THEN /\ props' = OkBranch(propsResult.value)
          /\ StepDone("unwrap")
          /\ UNCHANGED <<log, outcome, failure>>
     ELSE LET r == ErrorBranch(propsResult.payload)
          IN  /\ log' = log \o r.logged
              /\ Fail("raised", "unwrap", r.thrown)
              /\ trace' = Append(trace, "unwrap")
              /\ UNCHANGED <<props, idx, st, settled>>
  /\ UNCHANGED <<config, tree, wait, request, childComponent, ops, agg, doneOrder, pendingRender>>
  /\ UNCHANGED <<asserted, functionInputs>>

\* () => of({}): no producer, the props are the empty envelope.  The step is
\* part of no behaviour: a call without a producer is rejected by v.
OfEmpty ==
  /\ AtStep("ofEmpty") /\ st = "ready"
  /\ props' = EmptyProps
  /\ StepDone("ofEmpty")
  /\ UNCHANGED <<config, log, outcome, failure, tree, wait, request,
                 childComponent, ops, agg, doneOrder, pendingRender>>
  /\ UNCHANGED <<asserted, functionInputs>>

\* errorMaker: R.set(R.lensPath(['region', 'id']), 'foo', parentProps)
errorMaker(parentProps) == Merge(parentProps, [k \in {"region"} |-> "foo"])

\* R.map(props => errorMaker(props), resolvedPropsTask)
ErrorMakerStep ==
  /\ AtStep("errorMaker") /\ st = "ready"
  /\ props' = errorMaker(props)
  /\ StepDone("errorMaker")
  /\ UNCHANGED <<config, log, outcome, failure, tree, wait, request,
                 childComponent, ops, agg, doneOrder, pendingRender>>
  /\ UNCHANGED <<asserted, functionInputs>>

\* apolloConfigTask is run and resolves to {schema, apolloClient}.
ConfigStart ==
  /\ AtStep("config") /\ st = "ready"
  /\ StepStarted("config")
  /\ UNCHANGED <<config, log, props, outcome, failure, tree, wait, request,
                 childComponent, ops, agg, doneOrder, pendingRender>>
  /\ UNCHANGED <<asserted, functionInputs>>

ConfigResolve ==
  /\ AtStep("config") /\ st = "running"
  /\ StepSettled("config")
  /\ UNCHANGED <<config, log, props, outcome, failure, tree, wait, request,
                 childComponent, ops, agg, doneOrder, pendingRender>>
  /\ UNCHANGED <<asserted, functionInputs>>


\* ------------------------------------------------------------------ mount and wait
\* The status class the wait of this test looks for.
TerminalMarker == IF test = "testRenderError" THEN "error" ELSE "data"

Count(t, marker) == IF marker = "error" THEN t.error ELSE t.data

\* mountWithApolloClient({apolloClient}, containerInstance): the tree at the
\* instant after mounting, as the component renders it: l nodes of the
\* loading class, n nodes of the awaited class.
MountWithApolloClient(t, l, n, marker) ==
  [mounts |-> t.mounts + 1, loading |-> l,
   data |-> IF marker = "data" THEN n ELSE 0,
   error |-> IF marker = "error" THEN n ELSE 0,
   rev |-> t.rev]

\* waitForChildComponentRenderTask: the wait can end, with the nodes found,
\* once a descendant of the component carries the awaited class ...
WaitFinds(t, marker) == Count(t, marker) >= 1

\* ... and its budget can elapse as long as not exactly one descendant does.
WaitExpires(t, marker) == Count(t, marker) # 1

\* An assertion that was evaluated: expect(...) on behalf of the operation
\* name, of a kind, with its verdict.
Assertion(name, kind, ok) == [name |-> name, kind |-> kind, ok |-> ok]

\* The assertions _testRenderComponent evaluates on a tree mounted with l
\* nodes of the loading class: the container is found once; the loading
\* class is found once, when the component declares one.
RenderComponentAssertions(l) ==
  <<Assertion(<< >>, "container", TRUE)>>
  \o (IF hasLoading THEN <<Assertion(<< >>, "loading", l = 1)>> ELSE << >>)

\* Variant of RenderComponent: the loading class is not asserted.
RenderComponentWithoutLoadingAssertion ==
  /\ AtStep("render") /\ st = "ready"
  /\ \E l \in 0..MaxNodes, n \in 0..MaxNodes, req \in {"inflight", "none"} :
       /\ tree' = MountWithApolloClient(tree, l, n, TerminalMarker)
       /\ request' = req
  /\ asserted' = Append(asserted, Assertion(<< >>, "container", TRUE))
  /\ wait' = "waiting"
  /\ StepStarted("render")
  /\ UNCHANGED <<config, log, props, outcome, failure, childComponent, ops, agg,
                 doneOrder, pendingRender>>
  /\ UNCHANGED functionInputs

\* Variant of RenderComponent: the wait is started on a tree that was not mounted.
RenderComponentWaitsUnmounted ==
  /\ AtStep("render") /\ st = "ready"
  /\ wait' = "waiting"
  /\ StepStarted("render")
  /\ UNCHANGED <<config, log, props, outcome, failure, tree, request, childComponent,
                 ops, agg, doneOrder, pendingRender>>
  /\ UNCHANGED <<asserted, functionInputs>>

\* _testRenderComponent up to the creation of the wait task: mount, find the
\* container, assert the loading class when one is declared, start the wait.
RenderComponent ==
  /\ AtStep("render") /\ st = "ready"
  /\ \E l \in 0..MaxNodes, n \in 0..MaxNodes, req \in {"inflight", "none"} :
       /\ tree' = MountWithApolloClient(tree, l, n, TerminalMarker)
       /\ request' = req
       /\ asserted' = asserted \o RenderComponentAssertions(l)
       /\ IF hasLoading /\ l # 1
          THEN /\ Fail("assertion", "render", NoError)
               /\ trace' = Append(trace, "render")
               /\ UNCHANGED <<wait, idx, st, settled>>
          ELSE /\ wait' = "waiting"
               /\ StepStarted("render")
               /\ UNCHANGED <<outcome, failure>>
  /\ UNCHANGED <<config, log, props, childComponent, ops, agg, doneOrder, pendingRender>>
  /\ UNCHANGED functionInputs

\* The wait finds the awaited class: tsk resolves to {wrapper, childComponent}.
WaitResolve ==
  /\ AtStep("render") /\ st = "running" /\ wait = "waiting"
  /\ WaitFinds(tree, TerminalMarker)
  /\ wait' = "resolved"
  /\ childComponent' = Count(tree, TerminalMarker)
  /\ StepSettled("render")
  /\ UNCHANGED <<config, log, props, outcome, failure, tree, request, ops, agg,
                 doneOrder, pendingRender>>
  /\ UNCHANGED <<asserted, functionInputs>>

\* Variant of WaitTimeout: the requests in flight are cancelled.
WaitTimeoutCancelsRequests ==
  /\ AtStep("render") /\ st = "running" /\ wait = "waiting"
  /\ WaitExpires(tree, TerminalMarker)
  /\ wait' = "timeout"
  /\ request' = IF request = "inflight" THEN "cancelled" ELSE request
  /\ Fail("timeout", "render", NoError)
  /\ UNCHANGED <<config, idx, st, trace, settled, log, props, tree,
                 childComponent, ops, agg, doneOrder, pendingRender>>
  /\ UNCHANGED <<asserted, functionInputs>>

\* The budget of the wait elapses with the awaited class not found once.
WaitTimeout ==
  /\ AtStep("render") /\ st = "running" /\ wait = "waiting"
  /\ WaitExpires(tree, TerminalMarker)
  /\ wait' = "timeout"
  /\ Fail("timeout", "render", NoError)
  /\ UNCHANGED <<config, idx, st, trace, settled, log, props, tree, request,
                 childComponent, ops, agg, doneOrder, pendingRender>>
  /\ UNCHANGED <<asserted, functionInputs>>

\* The states the component can leave its loading state for: the error
\* state alone when the region id of its props cannot be queried.
TerminalStates(p) ==
  IF "region" \in DOMAIN p /\ p["region"] = "foo" THEN {"error"} ELSE {"data", "error"}

\* The query requests of the mounted containers complete on their own
\* schedule; the component leaves its loading state for data or error.
RequestCompletes ==
  /\ request = "inflight"
  /\ request' = "done"
  /\ \E kind \in TerminalStates(props), n \in 1..MaxNodes :
       tree' = [tree EXCEPT !.loading = 0,
                            !.data = IF kind = "data" THEN n ELSE 0,
                            !.error = IF kind = "error" THEN n ELSE 0]
  /\ UNCHANGED <<config, idx, st, trace, settled, log, props, outcome, failure,
                 wait, childComponent, ops, agg, doneOrder, pendingRender>>
  /\ UNCHANGED <<asserted, functionInputs>>


\* ------------------------------------------------------------------ named-task aggregation
\* "component": the mutate functions of the mounted tree (_testRenderComponentMutations)
\* "client": mutation tasks of an apolloClient (apolloMutationResponsesTask)
\* "query": query tasks of an apolloClient (apolloQueryResponsesTask)
Mode ==
  CASE test = "testRender" -> "component"
    [] test = "testQueries" -> "query"
    [] OTHER -> "client"

AggStep == IF test = "testQueries" THEN "queries" ELSE "mutations"

\* The test-local override of the drivers: {render: props => null}.
RenderOverride == [k \in {"render"} |-> "testRender"]

\* The props handed to the operations: R.merge(props, {render}) in client
\* mode, R.merge({render}, props) in component mode, the resolved props for
\* the queries.
propsWithRender ==
  CASE Mode = "client" -> Merge(props, RenderOverride)
    [] Mode = "component" -> Merge(RenderOverride, props)
    [] OTHER -> props

\* Variant of Context: an operation that was invoked leaves its mark on the
\* envelope the next invocation receives.
ContextAlteredByInvocation ==
  [apolloClient |-> "apolloClient",
   props |-> IF \E i \in DOMAIN ops : ops[i].inv = 1
             THEN Merge(propsWithRender, [k \in {"region"} |-> "mutated"])
             ELSE propsWithRender]

\* What every invocation of an operation is handed: the client of the
\* resolved config and the props envelope.
Context == [apolloClient |-> "apolloClient", props |-> propsWithRender]

NoSnap == [kind |-> "none", op |-> << >>, rev |-> 0, inv |-> 0, data |-> FALSE, val |-> 0]
\* component.props() / updatedComponent.instance().props at revision rev
PropsSnap(rev) ==
  [kind |-> "props", op |-> << >>, rev |-> rev, inv |-> 0, data |-> TRUE, val |-> rev]
\* the response of the inv-th invocation of operation op; data is FALSE when
\* the response carries an error instead of payload data; val is the value
\* found in the payload at the updated path
Response(op, inv, data, val) ==
  [kind |-> "response", op |-> op, rev |-> 0, inv |-> inv, data |-> data,
   val |-> IF data THEN val ELSE 0]

\* The operations of the aggregation, in key order.
OperationNames ==
  IF Mode = "query" THEN Keys(filterForQueryContainers(containers))
  ELSE Keys(filterForMutationContainers(containers))

\* The value one operation's task resolves to.
OpResult(op) ==
  IF Mode = "query" THEN op.response
  ELSE [mutationName |-> op.name,
        preMutationApolloRenderProps |-> op.pre,
        postMutationApolloRenderProps |-> op.post,
        mutationResponse |-> op.response]

\* Variant of WaitAllOps: the first operation to finish cancels the others.
WaitAllOpsRace(os) ==
  IF \E i \in DOMAIN os : os[i].status \in {"rejected", "done"}
  THEN [i \in DOMAIN os |->
          IF os[i].status \in {"running", "waiting"}
          THEN [os[i] EXCEPT !.status = "cancelled"] ELSE os[i]]
  ELSE os

\* folktale waitAll: a rejection rejects the aggregate and cancels the
\* operations still running; otherwise it resolves, once all operations
\* have, to their results in the order of the operations.
WaitAllOps(os) ==
  IF \E i \in DOMAIN os : os[i].status = "rejected"
  THEN [i \in DOMAIN os |->
          IF os[i].status \in {"running", "waiting"}
          THEN [os[i] EXCEPT !.status = "cancelled"] ELSE os[i]]
  ELSE os

\* Variant of WaitAllAgg: every entry is the result of the first operation.
WaitAllAggRepeatsFirst(os, order) ==
  IF \E i \in DOMAIN os : os[i].status = "rejected"
  THEN [status |-> "rejected", results |-> << >>]
  ELSE IF \A i \in DOMAIN os : os[i].status = "done"
  THEN [status |-> "resolved", results |-> [i \in DOMAIN os |-> OpResult(os[1])]]
  ELSE [status |-> "pending", results |-> << >>]

\* Variant of WaitAllAgg: the results are delivered in completion order.
WaitAllAggInCompletionOrder(os, order) ==
  IF \E i \in DOMAIN os : os[i].status = "rejected"
  THEN [status |-> "rejected", results |-> << >>]
  ELSE IF \A i \in DOMAIN os : os[i].status = "done"
  THEN [status |-> "resolved", results |-> [k \in DOMAIN order |-> OpResult(os[order[k]])]]
  ELSE [status |-> "pending", results |-> << >>]

\* Variant of WaitAllAgg: the results that carry an error are left out.
WaitAllAggDropsFailures(os, order) ==
  IF \E i \in DOMAIN os : os[i].status = "rejected"
  THEN [status |-> "rejected", results |-> << >>]
  ELSE IF \A i \in DOMAIN os : os[i].status = "done"
  THEN [status |-> "resolved",
        results |-> LET kept(op) == op.response.data
                        all == [i \in DOMAIN os |-> os[i]]
                        sel == SelectSeq(all, kept)
                    IN  [i \in DOMAIN sel |-> OpResult(sel[i])]]
  ELSE [status |-> "pending", results |-> << >>]

\* The aggregate of waitAll over the operations os (order: the operations
\* that resolved so far, in completion order; the aggregate ignores it).
WaitAllAgg(os, order) ==
  IF \E i \in DOMAIN os : os[i].status = "rejected"
  THEN [status |-> "rejected", results |-> << >>]
  ELSE IF \A i \in DOMAIN os : os[i].status = "done"
  THEN [status |-> "resolved", results |-> [i \in DOMAIN os |-> OpResult(os[i])]]
  ELSE [status |-> "pending", results |-> << >>]

\* R.map over the mutationResponseObjects of the mounted tree, once waitAll
\* has resolved: the props of each updatedComponent's instance are read.
ReadUpdatedProps(os) ==
  IF Mode = "component" /\ \A i \in DOMAIN os : os[i].status = "done"
  THEN [i \in DOMAIN os |-> [os[i] EXCEPT !.post = PropsSnap(tree.rev)]]
  ELSE os

\* What follows from the operations being os after one of them moved.
Aggregate(os, kind) ==
  /\ ops' = WaitAllOps(ReadUpdatedProps(os))
  /\ doneOrder' = doneOrder \o
       [k \in 1..Cardinality({i \in DOMAIN os : os[i].status = "done" /\ ops[i].status # "done"})
          |-> CHOOSE i \in DOMAIN os : os[i].status = "done" /\ ops[i].status # "done"]
  /\ agg' = WaitAllAgg(ReadUpdatedProps(os), doneOrder')
  /\ CASE agg'.status = "resolved" ->
            /\ StepSettled(AggStep)
            /\ UNCHANGED <<outcome, failure>>
       [] agg'.status = "rejected" ->
            /\ Fail(kind, AggStep, NoError)
            /\ UNCHANGED <<idx, st, trace, settled>>
       [] OTHER -> UNCHANGED <<idx, st, trace, settled, outcome, failure>>

\* waitAll(mapObjToValues(...)): every operation is invoked.  In component
\* mode the props of the component are read once, before the mutations.
AggStart ==
  /\ AtStep(AggStep) /\ st = "ready"
  /\ contextFault = "none"
  /\ LET names == OperationNames
         os == [i \in 1..Len(names) |->
                  [name |-> names[i], status |-> "running", inv |-> 1,
                   received |-> <<Context>>,
                   pre |-> IF Mode = "component" THEN PropsSnap(tree.rev) ELSE NoSnap,
                   post |-> NoSnap, response |-> NoSnap, childRendered |-> FALSE]]
     IN  /\ ops' = os
         /\ agg' = WaitAllAgg(os, << >>)
         /\ IF Len(names) = 0 THEN StepDone(AggStep) ELSE StepStarted(AggStep)
  /\ UNCHANGED <<config, log, props, outcome, failure, tree, wait, request,
                 childComponent, doneOrder, pendingRender>>
  /\ UNCHANGED <<asserted, functionInputs>>

\* apolloContainers is missing: calling it throws inside the step of the chain
\* that builds the operations, after the props and the config were resolved.
AggThrows ==
  /\ AtStep(AggStep) /\ st = "ready"
  /\ contextFault = "apolloContainers"
  /\ trace' = Append(trace, AggStep)
  /\ Fail("configuration", AggStep, NoError)
  /\ UNCHANGED <<config, idx, st, settled, log, props, tree, wait, request,
                 childComponent, ops, agg, doneOrder, pendingRender>>
  /\ UNCHANGED <<asserted, functionInputs>>

\* apolloContainers is missing: testRender throws when it is invoked, before
\* its chain is composed.
SetupThrows ==
  /\ outcome = "running" /\ ThrowsAtSetup
  /\ Fail("configuration", "setup", NoError)
  /\ UNCHANGED <<config, idx, st, trace, settled, log, props, tree, wait, request,
                 childComponent, ops, agg, doneOrder, pendingRender>>
  /\ UNCHANGED <<asserted, functionInputs>>

\* Variant of OpAfterResponse: the component is found again without waiting
\* for the data class after the mutation.
OpAfterResponseSkipsWait(op, resp) ==
  CASE Mode = "query" -> [op EXCEPT !.response = resp, !.status = "done"]
    [] Mode = "component" -> [op EXCEPT !.response = resp, !.status = "done"]
    [] Mode = "client" /\ op.inv = 1 -> [op EXCEPT !.pre = resp, !.inv = 2,
                       !.received = Append(op.received, Context)]
    [] OTHER -> [op EXCEPT !.post = resp, !.response = resp, !.status = "done"]

\* Variant of OpAfterResponse: the mutate function of the component is
\* invoked a second time before the wait.
OpAfterResponseInvokesTwice(op, resp) ==
  CASE Mode = "query" -> [op EXCEPT !.response = resp, !.status = "done"]
    [] Mode = "component" /\ op.inv = 1 -> [op EXCEPT !.inv = 2,
                       !.received = Append(op.received, Context)]
    [] Mode = "component" -> [op EXCEPT !.response = resp, !.status = "waiting"]
    [] Mode = "client" /\ op.inv = 1 -> [op EXCEPT !.pre = resp, !.inv = 2,
                       !.received = Append(op.received, Context)]
    [] OTHER -> [op EXCEPT !.post = resp, !.response = resp, !.status = "done"]

\* Variant of OpAfterResponse: in client mode the first response is kept as
\* the state after the mutation and the second as the state before.
OpAfterResponseSwapsPrePost(op, resp) ==
  CASE Mode = "query" -> [op EXCEPT !.response = resp, !.status = "done"]
    [] Mode = "component" -> [op EXCEPT !.response = resp, !.status = "waiting"]
    [] Mode = "client" /\ op.inv = 1 ->
         [op EXCEPT !.post = resp, !.inv = 2,
                    !.received = Append(op.received, Context)]
    [] OTHER -> [op EXCEPT !.pre = resp, !.response = resp, !.status = "done"]

\* Variant of OpAfterResponse: in component mode the props before the
\* mutation are read when the mutation has answered.
OpAfterResponseReadsPropsLate(op, resp) ==
  CASE Mode = "query" -> [op EXCEPT !.response = resp, !.status = "done"]
    [] Mode = "component" ->
         [op EXCEPT !.response = resp, !.status = "waiting", !.pre = PropsSnap(tree.rev)]
    [] Mode = "client" /\ op.inv = 1 ->
         [op EXCEPT !.pre = resp, !.inv = 2,
                    !.received = Append(op.received, Context)]
    [] OTHER -> [op EXCEPT !.post = resp, !.response = resp, !.status = "done"]

\* The operation after its running invocation resolved with resp.
OpAfterResponse(op, resp) ==
  CASE Mode = "query" -> [op EXCEPT !.response = resp, !.status = "done"]
    [] Mode = "component" -> [op EXCEPT !.response = resp, !.status = "waiting"]
    [] Mode = "client" /\ op.inv = 1 -> [op EXCEPT !.pre = resp, !.inv = 2,
                       !.received = Append(op.received, Context)]
    [] OTHER -> [op EXCEPT !.post = resp, !.response = resp, !.status = "done"]

\* The running invocation of operation i settles: it resolves with payload
\* data, resolves with an error in place of data, or rejects.
OpSettle(i) ==
  /\ AtStep(AggStep) /\ st = "running"
  /\ i \in DOMAIN ops /\ ops[i].status = "running"
  /\ \E result \in {"data", "error", "reject"}, v \in 1..MaxStamp :
       IF result = "reject"
       THEN /\ Aggregate([ops EXCEPT ![i].status = "rejected"], "rejected")
            /\ UNCHANGED pendingRender
       ELSE /\ Aggregate([ops EXCEPT ![i] =
                  OpAfterResponse(ops[i], Response(ops[i].name, ops[i].inv, result = "data", v))],
                  "rejected")
            /\ pendingRender' = IF Mode = "component" /\ result = "data"
                                THEN pendingRender \cup {i} ELSE pendingRender
  /\ UNCHANGED <<config, log, props, tree, wait, request, childComponent>>
  /\ UNCHANGED <<asserted, functionInputs>>

\* Component mode: the wait that follows the mutation finds the data class
\* (childRendered) and the component is found again (updatedComponent).
OpWaitResolve(i) ==
  /\ AtStep(AggStep) /\ st = "running"
  /\ i \in DOMAIN ops /\ ops[i].status = "waiting"
  /\ WaitFinds(tree, "data")
  /\ Aggregate([ops EXCEPT ![i].childRendered = TRUE, ![i].status = "done"], "rejected")
  /\ UNCHANGED <<config, log, props, tree, wait, request, childComponent, pendingRender>>
  /\ UNCHANGED <<asserted, functionInputs>>

\* Component mode: the wait that follows the mutation runs out of budget.
OpWaitTimeout(i) ==
  /\ AtStep(AggStep) /\ st = "running"
  /\ i \in DOMAIN ops /\ ops[i].status = "waiting"
  /\ WaitExpires(tree, "data")
  /\ Aggregate([ops EXCEPT ![i].status = "rejected"], "timeout")
  /\ UNCHANGED <<config, log, props, tree, wait, request, childComponent, pendingRender>>
  /\ UNCHANGED <<asserted, functionInputs>>

\* Variant of Rerender: the tree is mounted again for the new props.
RerenderRemounts(i) ==
  /\ i \in pendingRender
  /\ pendingRender' = pendingRender \ {i}
  /\ tree' = [tree EXCEPT !.rev = tree.rev + 1, !.mounts = tree.mounts + 1]
  /\ UNCHANGED <<config, idx, st, trace, settled, log, props, outcome, failure, wait,
                 request, childComponent, ops, agg, doneOrder>>
  /\ UNCHANGED <<asserted, functionInputs>>

\* The re-render caused by mutation i lands: the component has new props.
Rerender(i) ==
  /\ i \in pendingRender
  /\ pendingRender' = pendingRender \ {i}
  /\ tree' = [tree EXCEPT !.rev = tree.rev + 1]
  /\ UNCHANGED <<config, idx, st, trace, settled, log, props, outcome, failure, wait,
                 request, childComponent, ops, agg, doneOrder>>
  /\ UNCHANGED <<asserted, functionInputs>>

\* ------------------------------------------------------------------ assertions
\* updatedPaths = {mutateRegion: {component: [...updatedAt], client: ['data.mutate.region']}}:
\* the number of paths listed for a mutation under the key of the mode
\* (R.propOr({client: []}, mutationName, updatedPaths)[clientOrComponent]).
UpdatedPathCount(clientOrComponent, mutationName) ==
  IF mutationName = mutateRegion THEN 1 ELSE 0

\* Variant of PathResolves: a path that is not there reads as a value.
PathResolvesAlways(snapshot) == TRUE

\* reqStrPathThrowing(updatedPath, snapshot) finds a value
PathResolves(snapshot) == snapshot.kind # "none" /\ snapshot.data
\* the value at the updated path
PathValue(snapshot) == snapshot.val

\* Variant of ComparisonPasses: pre and post are compared for every mutation,
\* listed or not.
ComparisonPassesComparesUnlisted(clientOrComponent, c) ==
  /\ c.mutationResponse.data
  /\ PathResolves(c.preMutationApolloRenderProps)
  /\ PathResolves(c.postMutationApolloRenderProps)
  /\ PathValue(c.preMutationApolloRenderProps) #
       PathValue(c.postMutationApolloRenderProps)

\* Variant of ComparisonPasses: the values at the listed paths are not compared.
ComparisonPassesWithoutPaths(clientOrComponent, c) ==
  c.mutationResponse.data

\* testMutationChanges passes for one comparison
ComparisonPasses(clientOrComponent, c) ==
  /\ c.mutationResponse.data
  /\ UpdatedPathCount(clientOrComponent, c.mutationName) > 0 =>
       /\ PathResolves(c.preMutationApolloRenderProps)
       /\ PathResolves(c.postMutationApolloRenderProps)
       /\ PathValue(c.preMutationApolloRenderProps) #
            PathValue(c.postMutationApolloRenderProps)

testMutationChanges(clientOrComponent, prePostMutationComparisons) ==
  \A i \in DOMAIN prePostMutationComparisons :
     ComparisonPasses(clientOrComponent, prePostMutationComparisons[i])

\* The assertions testMutationChanges evaluates for one comparison, in the
\* order of the code; a failed one throws, so nothing follows it.

\* Variant of ComparisonAssertions: the paths are compared before the
\* response is looked at.
ComparisonAssertionsPathFirst(clientOrComponent, c) ==
  LET response == Assertion(c.mutationName, "response", c.mutationResponse.data)
      path == Assertion(c.mutationName, "path",
                /\ PathResolves(c.preMutationApolloRenderProps)
                /\ PathResolves(c.postMutationApolloRenderProps)
                /\ PathValue(c.preMutationApolloRenderProps) #
                     PathValue(c.postMutationApolloRenderProps))
  IN  IF UpdatedPathCount(clientOrComponent, c.mutationName) = 0 THEN <<response>>
      ELSE IF ~path.ok THEN <<path>>
      ELSE <<path, response>>

ComparisonAssertions(clientOrComponent, c) ==
  LET response == Assertion(c.mutationName, "response", c.mutationResponse.data)
      path == Assertion(c.mutationName, "path",
                /\ PathResolves(c.preMutationApolloRenderProps)
                /\ PathResolves(c.postMutationApolloRenderProps)
                /\ PathValue(c.preMutationApolloRenderProps) #
                     PathValue(c.postMutationApolloRenderProps))
  IN  IF ~response.ok THEN <<response>>
      ELSE IF UpdatedPathCount(clientOrComponent, c.mutationName) = 0 THEN <<response>>
      ELSE <<response, path>>

\* R.forEach over the comparisons: the assertions evaluated until one fails.
RECURSIVE MutationAssertions(_, _)
MutationAssertions(clientOrComponent, prePostMutationComparisons) ==
  IF prePostMutationComparisons = << >> THEN << >>
  ELSE LET head == ComparisonAssertions(clientOrComponent, Head(prePostMutationComparisons))
       IN  IF \E k \in DOMAIN head : ~head[k].ok THEN head
           ELSE head \o MutationAssertions(clientOrComponent, Tail(prePostMutationComparisons))

\* The errors the onResolved listener of _testQueries pushes: the error of
\* every response that carries one, in order.
errors(responsesByKey) == SelectSeq(responsesByKey, LAMBDA data : ~data.data)

\* Variant of OnResolvedAssertions: the listener of _testQueries throws at
\* the first response with an error and compares no snapshot.
OnResolvedAssertionsThrowAtError ==
  CASE test = "testMutations" -> MutationAssertions("client", agg.results)
    [] test = "testRender" ->
         LET child == Assertion(<< >>, "childComponent", childComponent = 1)
         IN  IF child.ok THEN <<child>> \o MutationAssertions("component", agg.results)
             ELSE <<child>>
    [] test = "testRenderError" -> <<Assertion(<< >>, "childComponent", childComponent = 1)>>
    [] test = "testQueries" ->
         IF errors(agg.results) = << >> THEN <<Assertion(<< >>, "snapshot", TRUE)>>
         ELSE << >>
    [] OTHER -> <<Assertion(<< >>, "mounted", TRUE)>>

\* The assertions the onResolved listener of the test evaluates.
OnResolvedAssertions ==
  CASE test = "testMutations" -> MutationAssertions("client", agg.results)
    [] test = "testRender" ->
         LET child == Assertion(<< >>, "childComponent", childComponent = 1)
         IN  IF child.ok THEN <<child>> \o MutationAssertions("component", agg.results)
             ELSE <<child>>
    [] test = "testRenderError" -> <<Assertion(<< >>, "childComponent", childComponent = 1)>>
    [] test = "testQueries" -> <<Assertion(<< >>, "snapshot", TRUE)>>
    [] OTHER -> <<Assertion(<< >>, "mounted", TRUE)>>

\* Variant of OnResolvedPasses: the length of childComponent is not asserted.
OnResolvedPassesWithoutLength ==
  CASE test = "testComposeRequests" -> TRUE
    [] test = "testQueries" -> \A i \in DOMAIN agg.results : agg.results[i].data
    [] test = "testMutations" -> testMutationChanges("client", agg.results)
    [] test = "testRender" -> testMutationChanges("component", agg.results)
    [] test = "testRenderError" -> TRUE

\* R.length(R.chain(R.prop(clientOrComponent), R.values(updatedPaths))): the
\* paths listed in updatedPaths, for whatever mutation.
RECURSIVE ListedPaths(_, _)
ListedPaths(clientOrComponent, names) ==
  IF names = << >> THEN 0
  ELSE UpdatedPathCount(clientOrComponent, Head(names))
       + ListedPaths(clientOrComponent, Tail(names))

\* The argument of expect.assertions of each test.
expectAssertions ==
  CASE test = "testComposeRequests" -> 1
    [] test = "testQueries" -> 1
    [] test = "testMutations" -> 1 + ListedPaths("client", NamePool)
    [] test = "testRender" ->
         2 + 1 + Len(filterForMutationContainers(containers))
           + ListedPaths("component", NamePool)
    [] test = "testRenderError" -> 3

\* What jest reports for the test: a test whose listener passed fails when
\* the assertions evaluated are not as many as expect.assertions declared.
Verdict ==
  IF outcome = "passed" /\ Len(asserted) # expectAssertions THEN "failed" ELSE outcome

\* The onResolved listener of the test passes all of its assertions.
OnResolvedPasses ==
  CASE test = "testComposeRequests" -> TRUE
    [] test = "testQueries" -> errors(agg.results) = << >>
    [] test = "testMutations" -> testMutationChanges("client", agg.results)
    [] test = "testRender" ->
         childComponent = 1 /\ testMutationChanges("component", agg.results)
    [] test = "testRenderError" -> childComponent = 1

\* Variant of OnResolved: when an assertion of the listener fails the
\* function returns without calling done.
OnResolvedReturnsWithoutDone ==
  /\ AtStep("onResolved") /\ st = "ready"
  /\ tree' = IF test = "testComposeRequests"
             THEN MountWithApolloClient(tree, 0, 0, "data") ELSE tree
  /\ trace' = Append(trace, "onResolved")
  /\ asserted' = asserted \o OnResolvedAssertions
  /\ IF OnResolvedPasses
     THEN /\ outcome' = "passed"
          /\ settled' = Append(settled, "onResolved")
          /\ idx' = idx + 1
          /\ UNCHANGED <<st, failure>>
     ELSE /\ st' = "returned"
          /\ UNCHANGED <<idx, settled, outcome, failure>>
  /\ UNCHANGED <<config, log, props, wait, request, childComponent, ops, agg,
                 doneOrder, pendingRender, functionInputs>>

\* defaultRunConfig({onResolved}, errors, done): the listener runs, done is called.
OnResolved ==
  /\ AtStep("onResolved") /\ st = "ready"
  /\ tree' = IF test = "testComposeRequests"
             THEN MountWithApolloClient(tree, 0, 0, "data") ELSE tree
  /\ trace' = Append(trace, "onResolved")
  /\ asserted' = asserted \o OnResolvedAssertions
  /\ IF OnResolvedPasses
     THEN /\ outcome' = "passed"
          /\ settled' = Append(settled, "onResolved")
          /\ idx' = idx + 1
          /\ UNCHANGED failure
     ELSE /\ Fail("assertion", "onResolved", NoError)
          /\ UNCHANGED <<idx, settled>>
  /\ UNCHANGED <<config, st, log, props, wait, request, childComponent, ops, agg,
                 doneOrder, pendingRender, functionInputs>>

\* ------------------------------------------------------------------ specification
Next ==
  \/ ProducerStart
  \/ ProducerResolve
  \/ Unwrap
  \/ ErrorMakerStep
  \/ ConfigStart
  \/ ConfigResolve
  \/ RenderComponent
  \/ WaitResolve
  \/ WaitTimeout
  \/ RequestCompletes
  \/ AggStart
  \/ AggThrows
  \/ SetupThrows
  \/ \E i \in 1..Len(NamePool) : OpSettle(i)
  \/ \E i \in 1..Len(NamePool) : OpWaitResolve(i)
  \/ \E i \in 1..Len(NamePool) : OpWaitTimeout(i)
  \/ \E i \in 1..Len(NamePool) : Rerender(i)
  \/ OnResolved

Spec == Init /\ [][Next]_vars

\* Before apolloContainerTests is called.
Uncalled ==
  /\ test = "testComposeRequests"
  /\ hasProducer = TRUE
  /\ propsResult = SampleProps
  /\ hasLoading = FALSE
  /\ contextFault = "none"
  /\ containers = << >>
  /\ Untouched
  /\ outcome = "uncalled"
  /\ failure = NoFailure
  /\ dataSet = Leaf("a")
  /\ snapshotFile = NoTree
  /\ matched = "none"
  /\ Unfiltered
  /\ operationSet = containers

\* apolloContainerTests(context, container, component) is called and one of
\* the tests it returns is invoked: the states of Init are entered.
apolloContainerTests ==
  /\ outcome = "uncalled"
  /\ test' \in Tests
  /\ hasProducer' \in BOOLEAN
  /\ propsResult' \in (IF hasProducer' THEN PropsResults
                        ELSE {[tag |-> "Ok", value |-> EmptyProps, payload |-> NoError.payload]})
  /\ hasLoading' \in BOOLEAN
  /\ contextFault' \in ContextFaults
  /\ containers' \in (IF contextFault' = "apolloContainers" THEN {<< >>} ELSE ContainerSets)
  /\ IF ThrowsAtCall'
     THEN /\ outcome' = "failed"
          /\ failure' = [kind |-> "configuration", step |-> "call", error |-> NoError]
     ELSE /\ outcome' = "running"
          /\ UNCHANGED failure
  /\ operationSet' = containers'
  /\ UNCHANGED <<idx, st, trace, settled, log, props, tree, wait, request,
                 childComponent, ops, agg, doneOrder, pendingRender, asserted,
                 dataSet, snapshotFile, matched, filterMarker, filtered, previous>>

NextFair ==
  \/ apolloContainerTests
  \/ Next

\* Every task that was run settles and every listener that was registered is
\* called: the steps that can be taken are taken.
FairSpec == Uncalled /\ [][NextFair]_vars /\ WF_vars(NextFair)


\* ------------------------------------------------------------------ snapshots of query responses
omitKeysFromSnapshots == {"id", "key", "createdAt", "updatedAt"}

\* The keys and leaf values of the responses drawn.
FieldKeys == {"id", "name"}
Leaves == {Leaf("a"), Leaf("b")}

\* The values nested at most d deep.
RECURSIVE Trees(_)
Trees(d) ==
  IF d = 0 THEN Leaves
  ELSE LET sub == Trees(d - 1)
       IN  Leaves
           \cup {Obj(g) : g \in UNION {[K -> sub] : K \in SUBSET FieldKeys}}
           \cup {List(l) : l \in {<< >>} \cup {<<x>> : x \in sub}
                                         \cup {<<x, y>> : x \in sub, y \in Leaves}}

\* Variant of omitDeep: only the fields of the value itself are removed.
omitDeepShallow(omit_keys, obj) ==
  IF obj.t = "obj" THEN Obj([k \in (DOMAIN obj.f) \ omit_keys |-> obj.f[k]]) ELSE obj

\* Variant of omitDeep: the elements of a list are left as they are.
RECURSIVE omitDeepSkipsLists(_, _)
omitDeepSkipsLists(omit_keys, obj) ==
  CASE obj.t = "obj" ->
         Obj([k \in (DOMAIN obj.f) \ omit_keys |-> omitDeepSkipsLists(omit_keys, obj.f[k])])
    [] OTHER -> obj

\* omitDeep(omit_keys, obj): obj without the fields named in omit_keys, at
\* every depth, through objects and lists.
RECURSIVE omitDeep(_, _)
omitDeep(omit_keys, obj) ==
  CASE obj.t = "list" ->
         List([i \in DOMAIN obj.xs |-> omitDeep(omit_keys, obj.xs[i])])
    [] obj.t = "obj" ->
         Obj([k \in (DOMAIN obj.f) \ omit_keys |-> omitDeep(omit_keys, obj.f[k])])
    [] OTHER -> obj

\* The same response fetched again: every field named in
\* omitKeysFromSnapshots has the new value v, all else is as before.
RECURSIVE Refetched(_, _)
Refetched(value, v) ==
  CASE value.t = "list" -> List([i \in DOMAIN value.xs |-> Refetched(value.xs[i], v)])
    [] value.t = "obj" ->
         Obj([k \in DOMAIN value.f |->
                IF k \in omitKeysFromSnapshots THEN v ELSE Refetched(value.f[k], v)])
    [] OTHER -> value

\* A first run of the query test: toMatchSnapshot stores the stripped response.
WriteSnapshot ==
  /\ snapshotFile = NoTree
  /\ snapshotFile' = omitDeep(omitKeysFromSnapshots, dataSet)
  /\ matched' = "written"
  /\ UNCHANGED <<config, idx, st, trace, settled, log, props, outcome, failure, tree,
                 wait, request, childComponent, ops, agg, doneOrder, pendingRender,
                 asserted, dataSet, partitionInputs>>

\* The queries are run again: identifiers and timestamps are new.
Refetch ==
  /\ matched # "none"
  /\ \E v \in Leaves : dataSet' = Refetched(dataSet, v)
  /\ matched' = "pending"
  /\ UNCHANGED <<config, idx, st, trace, settled, log, props, outcome, failure, tree,
                 wait, request, childComponent, ops, agg, doneOrder, pendingRender,
                 asserted, snapshotFile, partitionInputs>>

\* A later run: toMatchSnapshot compares the stripped response with the stored one.
CompareSnapshot ==
  /\ matched = "pending"
  /\ matched' = IF omitDeep(omitKeysFromSnapshots, dataSet) = snapshotFile
                THEN "match" ELSE "mismatch"
  /\ UNCHANGED <<config, idx, st, trace, settled, log, props, outcome, failure, tree,
                 wait, request, childComponent, ops, agg, doneOrder, pendingRender,
                 asserted, dataSet, snapshotFile, partitionInputs>>

InitSnapshot ==
  /\ test = "testQueries"
  /\ hasProducer = TRUE
  /\ propsResult = SampleProps
  /\ hasLoading = FALSE
  /\ contextFault = "none"
  /\ containers = <<Entry(queryRegions, Container)>>
  /\ Constructed
  /\ dataSet \in Trees(MaxDepth)
  /\ snapshotFile = NoTree
  /\ matched = "none"
  /\ Unfiltered
  /\ operationSet = containers

NextSnapshot ==
  \/ WriteSnapshot
  \/ Refetch
  \/ CompareSnapshot

SnapshotSpec == InitSnapshot /\ [][NextSnapshot]_vars

\* ------------------------------------------------------------------ partition of the named operations
\* Keys that differ from the sample's in the case of a letter.
QueryRegionsCapital == <<"Query", "Regions">>
MutateRegionCapital == <<"Mutat", "eRegion">>

\* Keys that hold the marker after their beginning.
requeryRegions == <<"re", "query", "Regions">>
unmutateRegion == <<"un", "mutat", "eRegion">>

\* A key that holds both markers.
queryPermutations == <<"query", "Per", "mutat", "ions">>

PartitionNames == <<queryRegions, QueryRegionsCapital, requeryRegions,
                    queryPermutations,
                    mutateRegion, MutateRegionCapital, unmutateRegion>>

\* Values of the entries: container functions of either kind.
PartitionValues == {<<"query", "Container">>, <<"mutat", "ionContainer">>}

\* The objects of named operations drawn: keys in the order of
\* PartitionNames, each with any of the values.
OperationSets ==
  UNION {{[i \in DOMAIN c |-> Entry(c[i], v[i])] : v \in [DOMAIN c -> PartitionValues]} :
           c \in {d \in SubSeqsOf(PartitionNames) : Len(d) <= MaxContainers}}

\* The filter of the marker.
FilterFor(marker, obj) ==
  IF marker = "query" THEN filterForQueryContainers(obj)
  ELSE filterForMutationContainers(obj)

\* One of the two filters is applied to the object.
Partition ==
  /\ filterMarker = "none"
  /\ \E marker \in {"query", "mutat"} :
       /\ filterMarker' = marker
       /\ filtered' = FilterFor(marker, operationSet)
       /\ previous' = FilterFor(marker, operationSet)
  /\ UNCHANGED <<config, idx, st, trace, settled, log, props, outcome, failure, tree,
                 wait, request, childComponent, ops, agg, doneOrder, pendingRender,
                 asserted, dataSet, snapshotFile, matched, operationSet>>

\* The same filter is applied to the same object again.
FilterAgain ==
  /\ filterMarker # "none"
  /\ previous' = filtered
  /\ filtered' = FilterFor(filterMarker, operationSet)
  /\ UNCHANGED <<config, idx, st, trace, settled, log, props, outcome, failure, tree,
                 wait, request, childComponent, ops, agg, doneOrder, pendingRender,
                 asserted, dataSet, snapshotFile, matched, operationSet, filterMarker>>

\* The value of one entry is replaced and the same filter applied.
ReplaceValue ==
  /\ filterMarker # "none"
  /\ \E i \in DOMAIN operationSet, v \in PartitionValues :
       /\ v # operationSet[i].value
       /\ operationSet' = [operationSet EXCEPT ![i].value = v]
  /\ previous' = filtered
  /\ filtered' = FilterFor(filterMarker, operationSet')
  /\ UNCHANGED <<config, idx, st, trace, settled, log, props, outcome, failure, tree,
                 wait, request, childComponent, ops, agg, doneOrder, pendingRender,
                 asserted, dataSet, snapshotFile, matched, filterMarker>>

InitPartition ==
  /\ test = "testQueries"
  /\ hasProducer = TRUE
  /\ propsResult = SampleProps
  /\ hasLoading = FALSE
  /\ contextFault = "none"
  /\ containers = <<Entry(queryRegions, Container)>>
  /\ Constructed
  /\ dataSet = Leaf("a")
  /\ snapshotFile = NoTree
  /\ matched = "none"
  /\ Unfiltered
  /\ operationSet \in OperationSets

NextPartition ==
  \/ Partition
  \/ FilterAgain
  \/ ReplaceValue

PartitionSpec == InitPartition /\ [][NextPartition]_vars

\* ------------------------------------------------------------------ properties
Range(s) == {s[i] : i \in 1..Len(s)}

IsPrefix(s, t) == Len(s) <= Len(t) /\ \A i \in 1..Len(s) : s[i] = t[i]

\* The steps that consume the resolved props.
LaterSteps == {"errorMaker", "config", "render", "queries", "mutations", "onResolved"}

\* C1 -- Chain short-circuit: when the unwrapping step of the props chain
\* meets an Error result, the chain stops there: no later step (config,
\* mount, queries, mutations, listener) is ever started, and the error
\* raised is the payload of the Error, or the last sub-error when the
\* payload carries a non-empty collection of sub-errors.
ChainShortCircuit ==
  failure.kind = "raised" =>
    /\ failure.step = "unwrap" /\ Last(trace) = "unwrap"
    /\ Range(trace) \cap LaterSteps = {}
    /\ tree.mounts = 0 /\ wait = "none" /\ request = "none"
    /\ ops = << >> /\ agg.status = "none"
    /\ LET p == propsResult.payload
       IN  IF p.obj /\ p.hasError /\ p.error # << >>
           THEN failure.error.t = "sub" /\ failure.error.sub = Last(p.error)
           ELSE failure.error.t = "payload" /\ failure.error.payload = p

\* C1 witness: a render test stopped at the unwrapping step by an Error whose
\* sub-errors are several and differ; the last one was raised.
ChainShortCircuitWitness ==
  /\ test = "testRender" /\ failure.kind = "raised"
  /\ Len(propsResult.payload.error) >= 2
  /\ propsResult.payload.error[1] # Last(propsResult.payload.error)
  /\ failure.error.t = "sub"

\* C2 -- Fail fast, no default: once the unwrapping step has met an Error
\* result the test has failed by a raise, the step never completes and no
\* props value is passed on; an Ok result is unwrapped to exactly the value
\* it contains (which only errorMaker changes afterwards).
FailFastNoDefault ==
  /\ (hasProducer /\ propsResult.tag = "Error" /\ "unwrap" \in Range(trace)) =>
       /\ outcome = "failed" /\ failure.kind = "raised"
       /\ "unwrap" \notin Range(settled)
       /\ props = EmptyProps /\ idx <= Len(Plan) /\ Plan[idx] = "unwrap"
  /\ (hasProducer /\ propsResult.tag = "Ok" /\ "unwrap" \in Range(settled)) =>
       props = IF "errorMaker" \in Range(settled)
               THEN errorMaker(propsResult.value) ELSE propsResult.value

\* C2 witness: an Error whose payload is not an object was met; the test failed.
FailFastNoDefaultWitness ==
  /\ propsResult.tag = "Error" /\ ~propsResult.payload.obj
  /\ "unwrap" \in Range(trace) /\ outcome = "failed"

\* The steps of each entry point in the order the data flows.
PropsOrder == IF hasProducer THEN <<"producer", "unwrap">> ELSE <<"ofEmpty">>

DeclaredOrder ==
  CASE test = "testComposeRequests" -> PropsOrder \o <<"config", "onResolved">>
    [] test = "testQueries" -> PropsOrder \o <<"config", "queries", "onResolved">>
    [] test = "testMutations" -> PropsOrder \o <<"config", "mutations", "onResolved">>
    [] test = "testRender" ->
         PropsOrder \o <<"config", "render", "mutations", "onResolved">>
    [] test = "testRenderError" ->
         PropsOrder \o <<"errorMaker", "config", "render", "onResolved">>

\* C3 -- Resolver ordering: the steps are started in the declared order,
\* each only after the previous one has completed, and the unwrapping step
\* of parentPropsTask is never started before the producer has resolved.
ResolverOrdering ==
  /\ IsPrefix(trace, DeclaredOrder)
  /\ IsPrefix(settled, trace)
  /\ Len(trace) <= Len(settled) + 1
  /\ "unwrap" \in Range(trace) => "producer" \in Range(settled)

\* C3 witness: a chain with a producer that has run through to its listener.
ResolverOrderingWitness ==
  /\ hasProducer /\ "unwrap" \in Range(settled)
  /\ "onResolved" \in Range(trace) /\ Len(trace) >= 5


\* The size of the NamedOperationSet of the test, counted on the containers.
OperationSetSize ==
  Cardinality({i \in 1..Len(containers) :
                 Includes(IF Mode = "query" THEN "query" ELSE "mutat", containers[i].key)})

\* The response carried by one entry of the aggregate, and its name.
ResponseOf(r) == IF Mode = "query" THEN r ELSE r.mutationResponse
NameOf(r) == IF Mode = "query" THEN r.op ELSE r.mutationName

AggregatorJoin ==
  agg.status = "resolved" =>
    /\ \A i \in DOMAIN ops : ops[i].status = "done"
    /\ Range(doneOrder) = DOMAIN ops
    /\ DOMAIN agg.results = DOMAIN ops
    /\ \A i \in DOMAIN agg.results :
         /\ NameOf(agg.results[i]) = OperationNames[i]
         /\ ResponseOf(agg.results[i]).op = OperationNames[i]
         /\ agg.results[i] = OpResult(ops[i])

\* C6 witness: the aggregate was delivered after the second operation
\* finished before the first.
AggregatorJoinWitness ==
  /\ agg.status = "resolved" /\ doneOrder = <<2, 1>>


RenderTests == {"testRender", "testRenderError"}

\* The instant after the mount: the wait has just been created and no
\* request of the tree has completed.
JustMounted ==
  /\ test \in RenderTests /\ tree.mounts = 1
  /\ wait = "waiting" /\ request # "done"

Rank == IF tree.mounts = 0 THEN 0 ELSE IF wait = "resolved" THEN 2 ELSE 1

\* C8 -- Mount state machine: the observed state only moves forward, one
\* state at a time, Unmounted -> Mounted/Loading -> Terminal; the terminal
\* wait exists only on a mounted tree.
MountStateMachine ==
  [][ /\ Rank' \in {Rank, Rank + 1}
      /\ wait' # "none" => tree'.mounts >= 1
      /\ (wait = "none" /\ wait' # "none") => wait' = "waiting" ]_vars

\* C8 witness: the error render test reached Terminal(Error).
MountStateMachineWitness ==
  /\ test = "testRenderError" /\ Rank = 2 /\ tree.error = 1

\* C9 -- Single-match: a terminal wait that ends at its timeout (the count
\* of matching nodes is then 0 or at least 2) fails the test, and a render
\* test passes only when exactly one node matched the terminal marker.
SingleMatch ==
  /\ wait = "timeout" => outcome = "failed" /\ failure.kind = "timeout"
  /\ (test \in RenderTests /\ outcome = "passed") =>
       wait = "resolved" /\ childComponent = 1
  /\ (test \in RenderTests /\ "onResolved" \in Range(trace) /\ childComponent # 1) =>
       outcome = "failed"

\* C9 witness: the wait timed out while two nodes matched the terminal marker.
SingleMatchWitness ==
  /\ wait = "timeout" /\ Count(tree, TerminalMarker) = 2 /\ outcome = "failed"

\* C10 -- Timeout: a timeout failure comes only from a wait for the
\* terminal marker; the wait of the mount that exceeds its budget fails the
\* test; the requests in flight are never cancelled and can still complete.
TimeoutOnlyAtWait ==
  /\ failure.kind = "timeout" =>
       /\ test \in RenderTests /\ outcome = "failed"
       /\ failure.step \in {"render", "mutations"}
       /\ failure.step = "render" <=> wait = "timeout"
  /\ wait = "timeout" => outcome = "failed" /\ failure.kind = "timeout"
  /\ request \in {"none", "inflight", "done"}
  /\ (wait = "timeout" /\ request = "inflight") => ENABLED RequestCompletes

\* C10 witness: after the wait timed out, the request completed and the
\* single terminal node appeared.
TimeoutOnlyAtWaitWitness ==
  /\ wait = "timeout" /\ request = "done" /\ Count(tree, TerminalMarker) = 1


\* C11 as stated -- mutation replay: each mutation bound into the mounted
\* tree has been invoked twice when its comparison is complete, with props
\* captured before and after.
MutationReplayTwice ==
  test = "testRender" =>
    \A i \in DOMAIN ops :
       ops[i].status = "done" =>
         /\ ops[i].inv = 2
         /\ ops[i].pre.kind = "props" /\ ops[i].post.kind = "props"

\* C11 as amended -- a mutation bound into the mounted tree is invoked once:
\* the props of the component are captured before the mutations and again
\* after the mutation and the wait that follows it, and the response is that
\* of the single invocation.  A mutation task run against a client is
\* invoked twice in sequence, and the two responses are captured as the
\* pre and post states, the second being the mutation response.
MutationReplay ==
  \A i \in DOMAIN ops :
     (Mode # "query" /\ ops[i].status = "done") =>
       IF Mode = "component"
       THEN /\ ops[i].inv = 1
            /\ ops[i].pre.kind = "props"
            /\ agg.status = "resolved" =>
                 ops[i].post.kind = "props" /\ ops[i].pre.rev <= ops[i].post.rev
            /\ ops[i].response.kind = "response" /\ ops[i].response.inv = 1
            /\ ops[i].response.op = ops[i].name
       ELSE /\ ops[i].inv = 2
            /\ ops[i].pre.kind = "response" /\ ops[i].pre.inv = 1
            /\ ops[i].post.kind = "response" /\ ops[i].post.inv = 2
            /\ ops[i].pre.op = ops[i].name /\ ops[i].post.op = ops[i].name
            /\ ops[i].response = ops[i].post

\* C11 witness: a render test passed after its one mutation was invoked once
\* and the props captured after it were newer than those captured before.
MutationReplayWitness ==
  /\ test = "testRender" /\ outcome = "passed" /\ Len(ops) = 1
  /\ ops[1].inv = 1 /\ ops[1].pre.rev < ops[1].post.rev


\* C12 -- per-mutation ordering in the render test: the props before the
\* mutation are captured by the time the mutate function is invoked; the
\* wait for the data marker of a mutation exists only once its mutate
\* function has answered; the props after the mutation are captured only
\* for a mutation whose wait has succeeded.
PerMutationOrdering ==
  test = "testRender" =>
    \A i \in DOMAIN ops :
       /\ ops[i].pre.kind = "props"
       /\ ops[i].status = "running" =>
            /\ ops[i].response = NoSnap /\ ~ops[i].childRendered
            /\ ops[i].post = NoSnap
       /\ ops[i].status = "waiting" =>
            /\ ops[i].response.kind = "response" /\ ~ops[i].childRendered
            /\ ops[i].post = NoSnap
       /\ ops[i].childRendered => ops[i].response.kind = "response"
       /\ ops[i].post.kind = "props" =>
            ops[i].childRendered /\ ops[i].pre.rev <= ops[i].post.rev

\* C12 witness: of two mutations of a render test, one waits for the data
\* marker while the other has not answered yet; later both are compared.
PerMutationOrderingWitness ==
  /\ test = "testRender" /\ Len(ops) = 2
  /\ ops[1].post.kind = "props" /\ ops[2].post.kind = "props"
  /\ doneOrder = <<2, 1>>


\* C13 -- one comparison per mutation: the comparisons delivered are as many
\* as the mutation operations of the set, their names are the names of the
\* set without repetition, and each carries its name, the raw response of
\* the mutation and populated pre and post states.
OneComparisonPerMutation ==
  (Mode # "query" /\ agg.status = "resolved") =>
    LET names == Keys(filterForMutationContainers(containers))
    IN  /\ Len(agg.results) = Len(names)
        /\ {agg.results[i].mutationName : i \in DOMAIN agg.results} = Range(names)
        /\ \A i, j \in DOMAIN agg.results :
             agg.results[i].mutationName = agg.results[j].mutationName => i = j
        /\ \A i \in DOMAIN agg.results :
             /\ agg.results[i].mutationResponse.kind = "response"
             /\ agg.results[i].mutationResponse.op = agg.results[i].mutationName
             /\ agg.results[i].preMutationApolloRenderProps.kind # "none"
             /\ agg.results[i].postMutationApolloRenderProps.kind # "none"

\* C13 witness: two comparisons of two different mutations run against a client.
OneComparisonPerMutationWitness ==
  /\ test = "testMutations" /\ agg.status = "resolved" /\ Len(agg.results) = 2
  /\ agg.results[1].mutationName = mutateRegion
  /\ agg.results[2].mutationName = mutateUser


\* C14 -- mutation failure: a mutation function that rejects fails the
\* test; a comparison whose mutation response carries no payload data fails
\* the test; and the response of a mutation is asserted non-empty before
\* any of that mutation's paths is compared.
MutationFailure ==
  /\ (Mode # "query" /\ \E i \in DOMAIN ops : ops[i].status = "rejected") =>
       outcome = "failed"
  /\ (Mode # "query" /\ "onResolved" \in Range(trace)
        /\ \E i \in DOMAIN agg.results : ~agg.results[i].mutationResponse.data) =>
       outcome = "failed"
  /\ \A k \in DOMAIN asserted :
       asserted[k].kind = "path" =>
         /\ k > 1
         /\ asserted[k - 1] = Assertion(asserted[k].name, "response", TRUE)
  /\ (Mode # "query" /\ outcome = "passed") => \A k \in DOMAIN asserted : asserted[k].ok

\* C14 witness: the listener compared the path of mutateRegion after its
\* response, then found the response of mutateUser empty, and the test failed.
MutationFailureWitness ==
  /\ outcome = "failed" /\ Len(asserted) >= 3
  /\ asserted[Len(asserted)] = Assertion(mutateUser, "response", FALSE)
  /\ asserted[Len(asserted) - 1] = Assertion(mutateRegion, "path", TRUE)


FieldsChanged ==
  (test \in {"testMutations", "testRender"} /\ "onResolved" \in Range(trace)) =>
    LET mode == IF test = "testRender" THEN "component" ELSE "client"
    IN  /\ (\E i \in DOMAIN agg.results :
              /\ UpdatedPathCount(mode, agg.results[i].mutationName) > 0
              /\ PathValue(agg.results[i].preMutationApolloRenderProps) =
                   PathValue(agg.results[i].postMutationApolloRenderProps))
             => outcome = "failed"
        /\ \A k \in DOMAIN asserted :
             asserted[k].kind = "path" => UpdatedPathCount(mode, asserted[k].name) > 0
        /\ ( /\ \A i \in DOMAIN agg.results :
                  /\ UpdatedPathCount(mode, agg.results[i].mutationName) = 0
                  /\ agg.results[i].mutationResponse.data
             /\ test = "testRender" => childComponent = 1 )
             => outcome = "passed"

\* C16 witness: a mutation without listed paths was run twice against a
\* client with the same value in both responses, and the test passed.
FieldsChangedWitness ==
  /\ test = "testMutations" /\ outcome = "passed" /\ Len(agg.results) = 1
  /\ agg.results[1].mutationName = mutateUser
  /\ agg.results[1].preMutationApolloRenderProps.data
  /\ agg.results[1].preMutationApolloRenderProps.val =
       agg.results[1].postMutationApolloRenderProps.val


\* C17 -- snapshot stability: a response that differs from the one the
\* snapshot was written from only in fields named in omitKeysFromSnapshots
\* strips to the stored snapshot, so the comparison never fails; nothing
\* named in omitKeysFromSnapshots is left in the snapshot.
SnapshotStability ==
  /\ matched # "mismatch"
  /\ snapshotFile # NoTree =>
       /\ omitDeep(omitKeysFromSnapshots, dataSet) = snapshotFile
       /\ omitDeep(omitKeysFromSnapshots, snapshotFile) = snapshotFile
       /\ Refetched(snapshotFile, Leaf("b")) = snapshotFile

\* C17 witness: a list holding an object was fetched again with a new id
\* and matched the snapshot stored before.
SnapshotStabilityWitness ==
  /\ matched = "match" /\ dataSet.t = "list" /\ Len(dataSet.xs) = 1
  /\ dataSet.xs[1].t = "obj" /\ DOMAIN dataSet.xs[1].f = {"id", "name"}
  /\ dataSet.xs[1].f["id"] = Leaf("b")
  /\ snapshotFile = List(<<Obj([k \in {"name"} |-> dataSet.xs[1].f["name"]])>>)


\* C18 -- error-path render: testRenderError mounts only after errorMaker
\* has set the region id of the resolved props to 'foo'; the tree mounted
\* with such props never shows the data marker and ends in the error
\* marker; the test passes only when exactly one error-marker node was found.
ErrorPathRender ==
  test = "testRenderError" =>
    /\ tree.mounts >= 1 =>
         /\ "errorMaker" \in Range(settled)
         /\ props = errorMaker(IF hasProducer THEN propsResult.value ELSE EmptyProps)
         /\ props["region"] = "foo"
    /\ tree.data = 0
    /\ request = "done" => tree.error >= 1 /\ tree.loading = 0
    /\ outcome = "passed" => wait = "resolved" /\ childComponent = 1

\* C18 witness: the error test passed after the requests of the tree
\* completed with an error and one error-marker node was rendered.
ErrorPathRenderWitness ==
  /\ test = "testRenderError" /\ outcome = "passed" /\ hasProducer
  /\ request = "done" /\ tree.error = 1 /\ props["region"] = "foo"


\* C19 -- name-based partition: with a filter applied, the names kept are
\* the same whatever the values of the entries are and however often the
\* filter is applied; an entry is kept with its value as it is in the
\* object; a name that holds the marker only in another case is left out;
\* filtering the filtered object changes nothing.
NameBasedPartition ==
  filterMarker # "none" =>
    /\ Keys(filtered) = Keys(previous)
    /\ filtered = FilterFor(filterMarker, operationSet)
    /\ FilterFor(filterMarker, filtered) = filtered
    /\ \A i \in DOMAIN filtered : \E j \in DOMAIN operationSet : filtered[i] = operationSet[j]
    /\ \A j \in DOMAIN operationSet :
         LET key == operationSet[j].key
         IN  /\ (\A k \in DOMAIN key : key[k] # filterMarker) =>
                  \A i \in DOMAIN filtered : filtered[i].key # key
             /\ (\E k \in DOMAIN key : key[k] = filterMarker) =>
                  \E i \in DOMAIN filtered : filtered[i].key = key

\* C19 witness: the query filter kept queryRegions and left out
\* QueryRegions, before and after the value of queryRegions was replaced
\* with a mutation's.
NameBasedPartitionWitness ==
  /\ filterMarker = "query"
  /\ Keys(operationSet) = <<queryRegions, QueryRegionsCapital>>
  /\ Keys(filtered) = <<queryRegions>>
  /\ previous # filtered
  /\ filtered[1].value = <<"mutat", "ionContainer">>


\* C20 -- MountHandle ownership: the tree is mounted only where no wait and
\* no mutation replay exists yet, it is never unmounted, and from the start
\* of the mutation replay of a render test on the number of mounts is one.
MountOwnership ==
  [][ /\ tree'.mounts >= tree.mounts
      /\ tree'.mounts # tree.mounts =>
           /\ tree.mounts = 0 /\ tree'.mounts = 1
           /\ wait = "none" /\ ops = << >> /\ ops' = << >>
      /\ (test = "testRender" /\ "mutations" \in Range(trace')) => tree'.mounts = 1
      /\ (test \in RenderTests /\ outcome' = "passed") => tree'.mounts = 1 ]_vars

\* C20 witness: a render test passed after the re-render of its mutation
\* landed on the tree mounted once.
MountOwnershipWitness ==
  /\ test = "testRender" /\ outcome = "passed" /\ Len(ops) >= 1
  /\ tree.mounts = 1 /\ tree.rev >= 1


\* C21 -- Eager configuration failure, as stated: under a context with a
\* missing or malformed field no task is ever run, no test passes, and the
\* only failure is the one raised when apolloContainerTests is called.
EagerConfigurationFailure ==
  contextFault # "none" =>
    /\ trace = << >>
    /\ outcome # "passed"
    /\ outcome = "failed" => failure.step = "call"


\* The test reported to the framework: done was called or a failure raised.
Reported == outcome \in {"passed", "failed"}

\* Nothing the test started is still under way.
Quiescent ==
  /\ \A i \in DOMAIN ops : ops[i].status \in {"done", "rejected"}
  /\ request # "inflight"
  /\ pendingRender = {}
  /\ st # "running"

Occurrences(s, steps) == Cardinality({k \in DOMAIN steps : steps[k] = s})

\* C23 -- No retries: the props producer, the config task, the mount and the
\* query aggregation are run at most once, every query operation is invoked
\* once, and once a test has failed no step is run, nothing is mounted and
\* no operation is invoked any more.
NoRetries ==
  [][ /\ \A s \in {"producer", "config", "render", "queries", "mutations"} :
           Occurrences(s, trace') <= 1
      /\ tree'.mounts <= 1
      /\ test = "testQueries" => \A i \in DOMAIN ops' : ops'[i].inv = 1
      /\ outcome = "failed" =>
           /\ trace' = trace
           /\ tree'.mounts = tree.mounts
           /\ DOMAIN ops' = DOMAIN ops
           /\ \A i \in DOMAIN ops : ops'[i].inv = ops[i].inv ]_vars

\* C23 witness: a query test whose producer ran failed on a rejected query
\* while another query was running; each had been invoked once.
NoRetriesWitness ==
  /\ test = "testQueries" /\ outcome = "failed" /\ hasProducer
  /\ Occurrences("producer", trace) = 1
  /\ Len(ops) = 2 /\ agg.status = "rejected"
  /\ \A i \in DOMAIN ops : ops[i].inv = 1


MultiErrorLogsAll ==
  (/\ hasProducer /\ propsResult.tag = "Error" /\ propsResult.payload.obj
   /\ PropOrError(propsResult.payload) # << >>
   /\ "unwrap" \in Range(trace)) =>
    /\ log = PropOrError(propsResult.payload)
    /\ outcome = "failed"
    /\ failure.error = SubError(Last(PropOrError(propsResult.payload)))


\* C26 -- prefix filters, as stated: the query filter keeps exactly the
\* entries whose name begins with 'query' and the mutation filter exactly
\* those whose name begins with 'mutat'.
BeginsWithPartition ==
  filterMarker # "none" =>
    Keys(filtered) = SelectSeq(Keys(operationSet), LAMBDA key : Head(key) = filterMarker)


\* C27 -- Stage ordering in testRender: the config task is run only once the
\* props are resolved, the mount only once the config is resolved, the
\* mutations only once the wait for the data marker has resolved on the
\* mounted tree, and the listener with the change assertions
\* only once every mutation has resolved and been awaited on the tree again.
StageOrdering ==
  test = "testRender" =>
    /\ "config" \in Range(trace) =>
         \E s \in {"unwrap", "ofEmpty"} : s \in Range(settled)
    /\ "render" \in Range(trace) => "config" \in Range(settled)
    /\ "mutations" \in Range(trace) =>
         /\ "render" \in Range(settled)
         /\ wait = "resolved" /\ childComponent >= 1
         /\ OperationSetSize > 0 => tree.mounts = 1
    /\ "onResolved" \in Range(trace) =>
         /\ "mutations" \in Range(settled)
         /\ agg.status = "resolved"
         /\ \A i \in DOMAIN ops : ops[i].status = "done" /\ ops[i].childRendered
    /\ (\E k \in DOMAIN asserted : asserted[k].kind \in {"childComponent", "response", "path"})
         => "onResolved" \in Range(trace)

\* C27 witness: a render test evaluated the change assertions of two
\* mutations after all of its stages.
StageOrderingWitness ==
  /\ test = "testRender" /\ Len(ops) = 2
  /\ trace = Plan
  /\ \E k \in DOMAIN asserted : asserted[k].kind # "childComponent"


\* C28 -- Shared context: every invocation of every operation of one
\* aggregation was handed the same client and the same props envelope,
\* which is the envelope built from the resolved props; in client mode a
\* mutation that is done was invoked twice with that envelope.
SharedContext ==
  /\ \A i, j \in DOMAIN ops :
       \A k \in DOMAIN ops[i].received, l \in DOMAIN ops[j].received :
         ops[i].received[k] = ops[j].received[l]
  /\ \A i \in DOMAIN ops :
       /\ Len(ops[i].received) = ops[i].inv
       /\ \A k \in DOMAIN ops[i].received :
            ops[i].received[k] = [apolloClient |-> "apolloClient", props |-> propsWithRender]
       /\ (Mode = "client" /\ ops[i].status = "done") => Len(ops[i].received) = 2

\* C28 witness: two mutations in client mode, each invoked twice, all four
\* invocations with the envelope of the parent props.
SharedContextWitness ==
  /\ Mode = "client" /\ Len(ops) = 2 /\ "region" \in DOMAIN props
  /\ \A i \in DOMAIN ops : ops[i].status = "done" /\ Len(ops[i].received) = 2


\* C29 -- Props merge, as stated: in the client-mode and in the
\* component-mode driver the envelope an operation is handed holds the
\* test-local render override, whatever render the parent props carry, and
\* every other parent prop as resolved.
TestLocalOverrideWins ==
  Mode \in {"client", "component"} =>
    \A i \in DOMAIN ops : \A k \in DOMAIN ops[i].received :
      LET p == ops[i].received[k].props
      IN  /\ p["render"] = RenderOverride["render"]
          /\ \A key \in DOMAIN props \ {"render"} : p[key] = props[key]


\* A field named in keys occurs in the value, at any depth.
RECURSIVE HasKey(_, _)
HasKey(keys, value) ==
  CASE value.t = "list" -> \E i \in DOMAIN value.xs : HasKey(keys, value.xs[i])
    [] value.t = "obj" ->
         \/ (DOMAIN value.f) \cap keys # {}
         \/ \E k \in DOMAIN value.f : HasKey(keys, value.f[k])
    [] OTHER -> FALSE

\* b is a with nothing but fields named in keys taken away: the other
\* fields, the leaves and the elements of lists are where they were.
RECURSIVE SameExcept(_, _, _)
SameExcept(keys, a, b) ==
  CASE a.t = "list" ->
         /\ b.t = "list" /\ Len(b.xs) = Len(a.xs)
         /\ \A i \in DOMAIN a.xs : SameExcept(keys, a.xs[i], b.xs[i])
    [] a.t = "obj" ->
         /\ b.t = "obj" /\ DOMAIN b.f = (DOMAIN a.f) \ keys
         /\ \A k \in DOMAIN b.f : SameExcept(keys, a.f[k], b.f[k])
    [] OTHER -> b = a

\* C30 -- Stripping is deep and exact: the stripped response holds no field
\* named in omitKeysFromSnapshots at any depth, differs from the response in
\* nothing else, and is left as it is by stripping it again; what is stored
\* as the snapshot, and so what is compared, is a stripped value.
DeepExactStripping ==
  LET stripped == omitDeep(omitKeysFromSnapshots, dataSet)
  IN  /\ ~HasKey(omitKeysFromSnapshots, stripped)
      /\ SameExcept(omitKeysFromSnapshots, dataSet, stripped)
      /\ omitDeep(omitKeysFromSnapshots, stripped) = stripped
      /\ ~HasKey(omitKeysFromSnapshots, dataSet) => stripped = dataSet
      /\ snapshotFile # NoTree => ~HasKey(omitKeysFromSnapshots, snapshotFile)

\* C30 witness: a list of two different elements, the first an object with
\* an id nested in an object, was stored without the id and in its order.
DeepExactStrippingWitness ==
  /\ dataSet.t = "list" /\ Len(dataSet.xs) = 2
  /\ dataSet.xs[1].t = "obj" /\ DOMAIN dataSet.xs[1].f = {"id", "name"}
  /\ dataSet.xs[2] = Leaf("b")
  /\ snapshotFile = List(<<Obj([k \in {"name"} |-> dataSet.xs[1].f["name"]]), Leaf("b")>>)


\* Every path that updatedPaths lists belongs to a mutation that is run.
ListedPathsAreRun ==
  test = "testRender" =>
    ListedPaths("component", NamePool) = ListedPaths("component", OperationNames)

\* C31 -- Conditional loading assertion, as stated: for a component that
\* declares no loading marker no loading assertion is evaluated, the wait is
\* started right after the mount, and a render test all of whose assertions
\* passed (its updatedPaths being those of the mutations run) is a test
\* that passes.
NoLoadingRenderPasses ==
  (~hasLoading /\ test \in RenderTests) =>
    /\ \A k \in DOMAIN asserted : asserted[k].kind # "loading"
    /\ JustMounted => wait = "waiting"
    /\ (outcome = "passed" /\ ListedPathsAreRun) => Verdict = "passed"


\* C32 -- Assertion-count consistency, as stated: on a run of testRender,
\* testMutations or testRenderError in which every assertion passed, the
\* assertions evaluated are as many as expect.assertions declared.
AssertionCountConsistency ==
  (test \in {"testRender", "testMutations", "testRenderError"} /\ outcome = "passed") =>
    Len(asserted) = expectAssertions


\* C33 -- Post-snapshot reflects the mutation, as stated: in the render
\* test the post-mutation props of every mutation that answered with data
\* are props rendered after the re-render of that mutation, and of every
\* other such mutation of the aggregate, has landed.
PostReflectsMutation ==
  (Mode = "component" /\ agg.status = "resolved") =>
    \A i \in DOMAIN agg.results :
      LET c == agg.results[i]
      IN  c.mutationResponse.data =>
            c.postMutationApolloRenderProps.rev >=
              c.preMutationApolloRenderProps.rev
                + Cardinality({j \in DOMAIN ops : ops[j].response.data})


\* C34 -- Shared pre-snapshot in component mode: every mutation of a render
\* test carries, from its invocation on, the props the component had when
\* the mutations were started, whatever re-render has landed since and in
\* whatever order the mutations completed; so does every comparison.
SharedPreSnapshot ==
  test = "testRender" =>
    /\ \A i \in DOMAIN ops : ops[i].pre = PropsSnap(0)
    /\ agg.status = "resolved" =>
         \A i \in DOMAIN agg.results :
           agg.results[i].preMutationApolloRenderProps = PropsSnap(0)

\* C34 witness: two mutations, the second completed first and a re-render
\* landed before the aggregate resolved; both comparisons carry the props
\* read before.
SharedPreSnapshotWitness ==
  /\ test = "testRender" /\ agg.status = "resolved" /\ Len(agg.results) = 2
  /\ doneOrder = <<2, 1>>
  /\ agg.results[1].postMutationApolloRenderProps.rev >= 1
  /\ agg.results[1].preMutationApolloRenderProps =
       agg.results[2].preMutationApolloRenderProps


\* C35 -- Sequential double invocation in client mode: a mutation is invoked
\* a second time only in the step in which its first invocation answered,
\* and never a third time; the first answer is kept as the state before,
\* the second as the state after and as the mutation response, in the
\* operation and in the comparison delivered.
SequentialDoubleInvocation ==
  [][ test = "testMutations" =>
        /\ \A i \in DOMAIN ops' :
             /\ ops'[i].inv \in {1, 2}
             /\ ops'[i].inv = 1 => ops'[i].pre = NoSnap /\ ops'[i].post = NoSnap
             /\ ops'[i].inv = 2 =>
                  ops'[i].pre.kind = "response" /\ ops'[i].pre.inv = 1
             /\ ops'[i].status = "done" =>
                  /\ ops'[i].inv = 2
                  /\ ops'[i].post.kind = "response" /\ ops'[i].post.inv = 2
                  /\ ops'[i].response = ops'[i].post
             /\ i \in DOMAIN ops =>
                  /\ ops'[i].inv >= ops[i].inv
                  /\ ops'[i].inv # ops[i].inv =>
                       /\ ops[i].status = "running" /\ ops[i].pre = NoSnap
                       /\ ops'[i].pre # NoSnap /\ ops'[i].post = NoSnap
                  /\ ops[i].pre # NoSnap => ops'[i].pre = ops[i].pre
        /\ agg'.status = "resolved" =>
             \A i \in DOMAIN agg'.results :
               /\ agg'.results[i].preMutationApolloRenderProps = ops'[i].pre
               /\ agg'.results[i].postMutationApolloRenderProps = ops'[i].post
               /\ agg'.results[i].mutationResponse = ops'[i].post ]_vars

\* C35 witness: a mutation run against the client was invoked twice; its
\* second answer carries another value than the first and is the response
\* of the comparison.
SequentialDoubleInvocationWitness ==
  /\ test = "testMutations" /\ agg.status = "resolved" /\ Len(agg.results) >= 1
  /\ agg.results[1].preMutationApolloRenderProps.inv = 1
  /\ agg.results[1].mutationResponse.inv = 2
  /\ agg.results[1].preMutationApolloRenderProps.val # agg.results[1].mutationResponse.val


\* C36 -- Missing path is a failure: once the listener has run over
\* comparisons of which one has a listed path that does not resolve in its
\* pre or in its post state, the test has failed; a test that passed
\* resolved every listed path on both sides.
MissingPathFails ==
  (Mode # "query" /\ "onResolved" \in Range(trace) /\ agg.status = "resolved") =>
    LET mode == IF Mode = "client" THEN "client" ELSE "component"
        missing(c) ==
          /\ UpdatedPathCount(mode, c.mutationName) > 0
          /\ \/ ~(c.preMutationApolloRenderProps.kind # "none"
                   /\ c.preMutationApolloRenderProps.data)
             \/ ~(c.postMutationApolloRenderProps.kind # "none"
                   /\ c.postMutationApolloRenderProps.data)
    IN  /\ (\E i \in DOMAIN agg.results : missing(agg.results[i])) =>
             /\ outcome = "failed" /\ failure.step = "onResolved"
             /\ \A k \in DOMAIN asserted : ~(asserted[k].kind = "path" /\ asserted[k].ok
                    /\ \E i \in DOMAIN agg.results :
                         /\ agg.results[i].mutationName = asserted[k].name
                         /\ missing(agg.results[i]))
        /\ outcome = "passed" => \A i \in DOMAIN agg.results : ~missing(agg.results[i])

\* C36 witness: the first invocation of mutateRegion answered with an error
\* and the second with data; the response assertion passed, the path did
\* not resolve in the pre state and the test failed.
MissingPathFailsWitness ==
  /\ test = "testMutations" /\ outcome = "failed" /\ Len(agg.results) = 1
  /\ agg.results[1].mutationName = mutateRegion
  /\ ~agg.results[1].preMutationApolloRenderProps.data
  /\ agg.results[1].mutationResponse.data
  /\ asserted = <<Assertion(mutateRegion, "response", TRUE),
                  Assertion(mutateRegion, "path", FALSE)>>


\* C37 -- Error payload without sub-errors: once the unwrapping step has met
\* an Error whose payload is not an object, or is an object without
\* sub-errors, nothing was logged and the payload itself was raised; for
\* any Error payload the step failed by a raise and passed no props on.
PayloadRaisedAsIs ==
  (hasProducer /\ propsResult.tag = "Error" /\ "unwrap" \in Range(trace)) =>
    /\ outcome = "failed" /\ failure.kind = "raised" /\ failure.step = "unwrap"
    /\ failure.error # NoError
    /\ "unwrap" \notin Range(settled) /\ props = EmptyProps
    /\ (~propsResult.payload.obj \/ PropOrError(propsResult.payload) = << >>) =>
         /\ log = << >>
         /\ failure.error = PayloadError(propsResult.payload)

\* C37 witness: an Error whose payload is an object with an empty collection
\* of sub-errors was met.
PayloadRaisedAsIsWitness ==
  /\ propsResult.tag = "Error" /\ propsResult.payload.obj
  /\ propsResult.payload.hasError /\ propsResult.payload.error = << >>
  /\ outcome = "failed" /\ failure.error.t = "payload"


\* C38 -- No props producer: when apolloContainerTests is called without a
\* props producer, the test functions are returned, parentPropsTask is not
\* invoked, the resolution of the props does not fail and the props it has
\* resolved are the empty envelope.
NoProducerResolvesEmpty ==
  (~hasProducer /\ contextFault = "none") =>
    /\ failure.step \notin {"call", "producer", "unwrap", "ofEmpty"}
    /\ "producer" \notin Range(trace) /\ "unwrap" \notin Range(trace)
    /\ props = EmptyProps


\* C39 -- Partition shape: the object a filter returns is a sub-mapping of
\* the object it was given (its keys are keys of the object, in the
\* object's order, each with the value it has in the object), and the two
\* filters keep no key in common: no operation of the object is both among
\* the queries and among the mutations.
PartitionShape ==
  filterMarker # "none" =>
    /\ Keys(filtered) \in SubSeqsOf(Keys(operationSet))
    /\ \A i \in DOMAIN filtered : \E j \in DOMAIN operationSet : filtered[i] = operationSet[j]
    /\ \A i \in DOMAIN filterForQueryContainers(operationSet) :
         \A j \in DOMAIN filterForMutationContainers(operationSet) :
           filterForQueryContainers(operationSet)[i].key
             # filterForMutationContainers(operationSet)[j].key

====
